---- MODULE Spec2Model ----
(***************************************************************************)
(* DynamicView of structurizr-python (src/structurizr/view/dynamic_view.py)*)
(* as a state machine: scope validation, relationship resolution and the   *)
(* branch-aware sequence numbering behind add() and parallel_sequence().   *)
(***************************************************************************)
EXTENDS Integers, Sequences, FiniteSets, TLC

\* Python's None, for an unset scope, parent, description or technology.
None == "None"

\* ------------------------------------------------------------------------
\* Bounds
\* ------------------------------------------------------------------------
\* Successful add calls per behaviour of Spec.
MaxAdds == 2
\* Successful add calls per behaviour of SpecSeq.
MaxSeqAdds == 4
\* parallel_sequence blocks opened per behaviour of Spec.
MaxBlocks == 1
\* parallel_sequence blocks opened per behaviour of SpecSeq.
MaxSeqBlocks == 3

\* ------------------------------------------------------------------------
\* The architecture model the view reads (elements and relationships)
\* ------------------------------------------------------------------------
Elements == {"P", "S1", "S2", "C1", "C2", "K2", "D"}

Kind(e) ==
    CASE e = "P" -> "Person"
      [] e \in {"S1", "S2"} -> "SoftwareSystem"
      [] e \in {"C1", "C2"} -> "Container"
      [] e = "K2" -> "Component"
      [] OTHER -> "DeploymentNode"

Parent(e) ==
    CASE e = "C1" -> "S1"
      [] e = "C2" -> "S2"
      [] e = "K2" -> "C2"
      [] OTHER -> None

\* The relationships of the model, in declared order.
Relationships ==
    << [id |-> 1, source |-> "P",  destination |-> "S2", description |-> "Uses",     technology |-> ""],
       [id |-> 2, source |-> "P",  destination |-> "S2", description |-> "Reads",    technology |-> "HTTP"],
       [id |-> 3, source |-> "P",  destination |-> "S2", description |-> "Uses",     technology |-> "HTTP"],
       [id |-> 4, source |-> "S2", destination |-> "P",  description |-> "Notifies", technology |-> "SMTP"],
       [id |-> 5, source |-> "P",  destination |-> "C2", description |-> "Uses",     technology |-> "HTTP"],
       [id |-> 6, source |-> "K2", destination |-> "P",  description |-> "Notifies", technology |-> ""],
       [id |-> 7, source |-> "C1", destination |-> "S2", description |-> "Calls",    technology |-> "HTTP"],
       [id |-> 8, source |-> "P",  destination |-> "S1", description |-> "Uses",     technology |-> ""] >>

\* "No relationship": the None of _find_relationship's first component.
NoRelationship ==
    [id |-> 0, source |-> None, destination |-> None, description |-> None, technology |-> None]

Scopes == {None, "S1", "C1"}
Descriptions == {None, "", "Uses", "Reads", "Notifies", "Reply"}
Technologies == {None, "", "HTTP", "SMTP", "gRPC"}

\* Arguments of the add calls of Spec and of SpecSeq.
AddDescriptions == {None}
AddTechnologies == {None, ""}
SeqSources == {"P", "D"}
SeqDestinations == {"S2", "C1"}
SeqDescriptions == {"Uses"}
SeqTechnologies == {None, "gRPC"}

\* ------------------------------------------------------------------------
\* Helpers of Python semantics
\* ------------------------------------------------------------------------
\* Truthiness of an Optional[str]: None and "" are falsy.
Truthy(s) == s # None /\ s # ""

Digits == <<"0", "1", "2", "3", "4", "5", "6", "7", "8", "9">>

RECURSIVE str(_)
\* str(int) of a non-negative integer.
str(n) == IF n < 10 THEN Digits[n + 1] ELSE str(n \div 10) \o Digits[(n % 10) + 1]

MaxLabel == MaxAdds + MaxSeqAdds
\* int(label): the number a decimal label denotes.
int(s) == CHOOSE n \in 0..MaxLabel : str(n) = s

\* ------------------------------------------------------------------------
\* Element.get_efferent_relationships / get_afferent_relationships
\* ------------------------------------------------------------------------
get_efferent_relationships(source) ==
    SelectSeq(Relationships, LAMBDA r : r.source = source)

get_afferent_relationships(element) ==
    SelectSeq(Relationships, LAMBDA r : r.destination = element)

\* ------------------------------------------------------------------------
\* DynamicView._find_relationship
\* ------------------------------------------------------------------------
forward_match_ignoring_technology(rel, description, destination, technology) ==
    /\ rel.destination = destination
    /\ (rel.description = description \/ ~Truthy(description))

forward_match(rel, description, destination, technology) ==
    /\ rel.destination = destination
    /\ (rel.description = description \/ ~Truthy(description))
    /\ (rel.technology = technology \/ technology = None)

response_match(rel, destination, technology) ==
    /\ rel.source = destination
    /\ (rel.technology = technology \/ technology = None)

RECURSIVE forward_scan(_, _, _, _)
\* next((rel for rel in ... if <forward match>), None) over rels in order.
forward_scan(rels, description, destination, technology) ==
    IF rels = <<>> THEN NoRelationship
    ELSE IF forward_match(Head(rels), description, destination, technology)
         THEN Head(rels)
         ELSE forward_scan(Tail(rels), description, destination, technology)

RECURSIVE response_scan(_, _, _)
\* next((rel for rel in ... if <response match>), None) over rels in order.
response_scan(rels, destination, technology) ==
    IF rels = <<>> THEN NoRelationship
    ELSE IF response_match(Head(rels), destination, technology)
         THEN Head(rels)
         ELSE response_scan(Tail(rels), destination, technology)

forward_search(source, description, destination, technology) ==
    forward_scan(get_efferent_relationships(source), description, destination, technology)

response_search(source, destination, technology) ==
    response_scan(get_afferent_relationships(source), destination, technology)

find_relationship_response_first(source, description, destination, technology) ==
    LET back == response_search(source, destination, technology)
        rel == forward_search(source, description, destination, technology)
    IN  IF back # NoRelationship
        THEN [relationship |-> back, response |-> TRUE]
        ELSE [relationship |-> rel, response |-> FALSE]

_find_relationship(source, description, destination, technology) ==
    LET rel == forward_search(source, description, destination, technology)
    IN  IF rel # NoRelationship
        THEN [relationship |-> rel, response |-> FALSE]
        ELSE [relationship |-> response_search(source, destination, technology),
              response |-> TRUE]

\* ------------------------------------------------------------------------
\* DynamicView.check_element_can_be_added
\* ------------------------------------------------------------------------
\* a is a proper ancestor of e along the parent links (three levels at most).
IsAncestor(a, e) ==
    /\ a # None
    /\ \/ Parent(e) = a
       \/ (Parent(e) # None /\ Parent(Parent(e)) = a)

\* View.check_parent_and_children_not_in_view: TRUE when the element passes.
check_parent_and_children_not_in_view(scope, e) ==
    ~(IsAncestor(e, scope) \/ IsAncestor(scope, e))

check_element_admits_system_scope(scope, e) ==
    IF Kind(e) \notin {"Person", "SoftwareSystem", "Container", "Component"}
    THEN "not_static_structure"
    ELSE IF Kind(e) = "Person" THEN "ok"
    ELSE IF scope # None /\ Kind(scope) = "SoftwareSystem"
    THEN IF Kind(e) = "Component" THEN "component_in_system_scope"
         ELSE IF check_parent_and_children_not_in_view(scope, e) THEN "ok"
         ELSE "parent_or_child"
    ELSE IF scope # None /\ Kind(scope) = "Container"
    THEN IF e = scope \/ e = Parent(scope) THEN "is_scope"
         ELSE IF check_parent_and_children_not_in_view(scope, e) THEN "ok"
         ELSE "parent_or_child"
    ELSE IF Kind(e) # "SoftwareSystem" THEN "only_people_and_systems"
         ELSE "ok"

check_element_any_kind_unscoped(scope, e) ==
    IF Kind(e) \notin {"Person", "SoftwareSystem", "Container", "Component"}
    THEN "not_static_structure"
    ELSE IF Kind(e) = "Person" THEN "ok"
    ELSE IF scope # None /\ Kind(scope) = "SoftwareSystem"
    THEN IF e = scope THEN "is_scope"
         ELSE IF Kind(e) = "Component" THEN "component_in_system_scope"
         ELSE IF check_parent_and_children_not_in_view(scope, e) THEN "ok"
         ELSE "parent_or_child"
    ELSE IF scope # None /\ Kind(scope) = "Container"
    THEN IF e = scope \/ e = Parent(scope) THEN "is_scope"
         ELSE IF check_parent_and_children_not_in_view(scope, e) THEN "ok"
         ELSE "parent_or_child"
    ELSE "ok"

\* "ok" when the element is admitted, otherwise the ValueError raised.
check_element_can_be_added(scope, e) ==
    IF Kind(e) \notin {"Person", "SoftwareSystem", "Container", "Component"}
    THEN "not_static_structure"
    ELSE IF Kind(e) = "Person" THEN "ok"
    ELSE IF scope # None /\ Kind(scope) = "SoftwareSystem"
    THEN IF e = scope THEN "is_scope"
         ELSE IF Kind(e) = "Component" THEN "component_in_system_scope"
         ELSE IF check_parent_and_children_not_in_view(scope, e) THEN "ok"
         ELSE "parent_or_child"
    ELSE IF scope # None /\ Kind(scope) = "Container"
    THEN IF e = scope \/ e = Parent(scope) THEN "is_scope"
         ELSE IF check_parent_and_children_not_in_view(scope, e) THEN "ok"
         ELSE "parent_or_child"
    ELSE IF Kind(e) # "SoftwareSystem" THEN "only_people_and_systems"
         ELSE "ok"

\* ------------------------------------------------------------------------
\* SequenceNumber: a stack of counters, the base frame first
\* ------------------------------------------------------------------------
get_next(seq) == [seq EXCEPT ![Len(seq)] = @ + 1]

start_parallel_sequence(seq) == Append(seq, seq[Len(seq)])

end_parallel_sequence(seq, continue_numbering) ==
    LET n == Len(seq)
        parent == SubSeq(seq, 1, n - 1)
    IN  IF continue_numbering
        THEN [parent EXCEPT ![n - 1] = seq[n]]
        ELSE parent

\* ------------------------------------------------------------------------
\* DynamicView.parallel_sequence: the finally clause
\* ------------------------------------------------------------------------
parallel_sequence_without_finally(seq, continue_numbering, raised) ==
    IF raised THEN seq ELSE end_parallel_sequence(seq, continue_numbering)

parallel_sequence_finally_always_continues(seq, continue_numbering, raised) ==
    end_parallel_sequence(seq, TRUE)

parallel_sequence_finally_never_continues(seq, continue_numbering, raised) ==
    end_parallel_sequence(seq, FALSE)

parallel_sequence_finally(seq, continue_numbering, raised) ==
    end_parallel_sequence(seq, continue_numbering)

\* ------------------------------------------------------------------------
\* DynamicView.add: the pieces of the method
\* ------------------------------------------------------------------------
\* Which of the method's exits a call takes.
add_outcome(scope, source, destination, description, technology) ==
    IF check_element_can_be_added(scope, source) # "ok" THEN "source_rejected"
    ELSE IF check_element_can_be_added(scope, destination) # "ok" THEN "destination_rejected"
    ELSE IF _find_relationship(source, description, destination, technology).relationship
              = NoRelationship
    THEN "not_found"
    ELSE "ok"

\* The ValueError of a failed call: the validator's, or "not_found".
add_error(scope, source, destination) ==
    IF check_element_can_be_added(scope, source) # "ok"
    THEN check_element_can_be_added(scope, source)
    ELSE IF check_element_can_be_added(scope, destination) # "ok"
    THEN check_element_can_be_added(scope, destination)
    ELSE "not_found"

\* The element the validator rejected, if it rejected one.
rejected_element(outcome, source, destination) ==
    IF outcome = "source_rejected" THEN source
    ELSE IF outcome = "destination_rejected" THEN destination
    ELSE None

\* The branch of the relationship-not-found message that names the technology.
error_mentions_technology(technology) == Truthy(technology)

add_elements_registers_source_early(view_elements, outcome, source, destination) ==
    IF outcome = "ok" THEN view_elements \cup {source, destination}
    ELSE IF outcome = "source_rejected" THEN view_elements
    ELSE view_elements \cup {source}

\* The element set after the call: _add_element(source), _add_element(destination).
add_elements(view_elements, outcome, source, destination) ==
    IF outcome = "ok" THEN view_elements \cup {source, destination} ELSE view_elements

add_order_before_increment(seq) == str(seq[Len(seq)])

\* order=self.sequence_number.get_next(): the label of the incremented counter.
add_order(seq) == str(get_next(seq)[Len(seq)])

\* description=description or relationship.description
effective_description(description, relationship) ==
    IF Truthy(description) THEN description ELSE relationship.description

\* ------------------------------------------------------------------------
\* State
\* ------------------------------------------------------------------------
VARIABLES
    element,            \* self.element: the scope of the view, or None
    elements,           \* the elements registered in the view
    relationship_views, \* the interaction records, in the order they were added
    sequence_number,    \* self.sequence_number: the stack of counters
    blocks,             \* the parallel_sequence blocks that are open, outermost first
    exception,          \* TRUE while a ValueError raised by add is propagating
    last,               \* what the most recent call did
    history,            \* per frame: the labels handed out and the blocks closed there
    opened,             \* the number of parallel_sequence blocks opened so far
    call,               \* SpecResolve: the arguments of a _find_relationship call
    result              \* SpecResolve: what that call returned

vars == <<element, elements, relationship_views, sequence_number, blocks, exception,
          last, history, opened, call, result>>

view_vars == <<element, elements, relationship_views, sequence_number, blocks, exception,
               last, history, opened>>

Range(f) == {f[i] : i \in DOMAIN f}

NoAfter == [active |-> FALSE, labels |-> {}, resets |-> FALSE]

NoBlock == [present |-> FALSE, continue_numbering |-> FALSE, labels |-> <<>>, resets |-> FALSE]

NoPair == [first |-> NoBlock, second |-> NoBlock]

NewFrame ==
    [labels |-> <<>>, resets |-> FALSE, sibling |-> NoBlock, closed |-> NoPair,
     awaiting |-> NoAfter]

NoCall ==
    [op |-> "none", outcome |-> "none", reason |-> "none", rejected |-> None,
     source |-> None, destination |-> None,
     technology |-> None, response |-> FALSE, order |-> "", mentions_technology |-> FALSE,
     after |-> NoAfter]

NoArguments == [source |-> None, destination |-> None, description |-> None, technology |-> None]

NoResult == [done |-> FALSE, relationship |-> NoRelationship, response |-> FALSE]

\* The blocks opened with continue_numbering=True that closed since the last successful
\* add, in any frame that is still open.
Awaited(h) ==
    [active |-> \E i \in DOMAIN h : h[i].awaiting.active,
     labels |-> UNION {h[i].awaiting.labels : i \in DOMAIN h},
     resets |-> \E i \in DOMAIN h : h[i].awaiting.resets]

ViewInit ==
    /\ elements = {}
    /\ relationship_views = <<>>
    /\ sequence_number = <<0>>
    /\ blocks = <<>>
    /\ exception = FALSE
    /\ last = NoCall
    /\ history = <<NewFrame>>
    /\ opened = 0

Init ==
    /\ element \in Scopes
    /\ ViewInit
    /\ call = NoArguments
    /\ result = NoResult

\* ------------------------------------------------------------------------
\* DynamicView.add
\* ------------------------------------------------------------------------
add(source, destination, description, technology) ==
    LET outcome == add_outcome(element, source, destination, description, technology)
        found == _find_relationship(source, description, destination, technology)
        order == add_order(sequence_number)
        n == Len(sequence_number)
    IN  /\ ~exception
        /\ elements' = add_elements(elements, outcome, source, destination)
        /\ IF outcome = "ok"
           THEN /\ relationship_views' =
                       Append(relationship_views,
                              [relationship |-> found.relationship.id,
                               description |-> effective_description(description,
                                                                     found.relationship),
                               order |-> order,
                               response |-> found.response])
                /\ sequence_number' = get_next(sequence_number)
                /\ history' = [i \in 1..n |->
                                 [history[i] EXCEPT !.labels = Append(@, order),
                                                    !.closed = NoPair,
                                                    !.awaiting = NoAfter]]
                /\ exception' = FALSE
                /\ last' = [NoCall EXCEPT !.op = "add", !.outcome = outcome,
                                          !.response = found.response, !.order = order,
                                          !.after = Awaited(history)]
           ELSE /\ UNCHANGED <<relationship_views, sequence_number, history>>
                /\ exception' = TRUE
                /\ last' = [NoCall EXCEPT !.op = "add", !.outcome = outcome,
                                          !.reason = add_error(element, source, destination),
                                          !.rejected = rejected_element(outcome, source,
                                                                        destination),
                                          !.source =
                                              IF outcome = "not_found" THEN source
                                              ELSE None,
                                          !.destination =
                                              IF outcome = "not_found" THEN destination
                                              ELSE None,
                                          !.technology =
                                              IF outcome = "not_found" THEN technology
                                              ELSE None,
                                          !.mentions_technology =
                                              (outcome = "not_found"
                                               /\ error_mentions_technology(technology))]
        /\ UNCHANGED <<element, blocks, opened, call, result>>

\* ------------------------------------------------------------------------
\* DynamicView.parallel_sequence
\* ------------------------------------------------------------------------
\* Entering the with block: start_parallel_sequence, then the body runs.
parallel_sequence_enter(continue_numbering) ==
    LET n == Len(sequence_number)
    IN  /\ ~exception
        /\ sequence_number' = start_parallel_sequence(sequence_number)
        /\ blocks' = Append(blocks, [continue_numbering |-> continue_numbering, depth |-> n])
        /\ history' =
              Append([i \in 1..n |->
                        [history[i] EXCEPT !.closed = NoPair,
                                           !.resets = @ \/ ~continue_numbering]],
                     [NewFrame EXCEPT !.sibling = history[n].closed.second])
        /\ opened' = opened + 1
        /\ last' = NoCall
        /\ UNCHANGED <<element, elements, relationship_views, exception, call, result>>

\* Leaving the with block, normally or with the exception of a failed add propagating.
parallel_sequence_exit ==
    LET n == Len(history)
        b == blocks[Len(blocks)]
        me == [present |-> TRUE, continue_numbering |-> b.continue_numbering,
               labels |-> history[n].labels, resets |-> history[n].resets]
    IN  /\ blocks # <<>>
        /\ sequence_number' =
              parallel_sequence_finally(sequence_number, b.continue_numbering, exception)
        /\ blocks' = SubSeq(blocks, 1, Len(blocks) - 1)
        /\ history' =
              [i \in 1..(n - 1) |->
                 IF i < n - 1 THEN history[i]
                 ELSE [history[i] EXCEPT
                         !.closed = IF b.continue_numbering THEN NoPair
                                    ELSE [first |-> history[n].sibling, second |-> me],
                         !.awaiting =
                             IF b.continue_numbering
                             THEN [active |-> TRUE,
                                   labels |-> @.labels \cup Range(history[n].labels),
                                   resets |-> @.resets \/ history[n].resets]
                             ELSE @]]
        /\ last' = [NoCall EXCEPT !.op = "exit"]
        /\ UNCHANGED <<element, elements, relationship_views, exception, opened,
                       call, result>>

\* The caller catches the ValueError of a failed add.
catch ==
    /\ exception
    /\ exception' = FALSE
    /\ last' = NoCall
    /\ UNCHANGED <<element, elements, relationship_views, sequence_number, blocks, history,
                   opened, call, result>>

Next ==
    \/ \E source \in Elements, destination \in Elements,
          description \in AddDescriptions, technology \in AddTechnologies :
          /\ Len(relationship_views) < MaxAdds
          /\ add(source, destination, description, technology)
    \/ \E continue_numbering \in BOOLEAN :
          /\ opened < MaxBlocks
          /\ parallel_sequence_enter(continue_numbering)
    \/ parallel_sequence_exit
    \/ catch

Spec == Init /\ [][Next]_vars

\* ------------------------------------------------------------------------
\* SpecSeq: the numbering scenario of the parallel_sequence docstring, unscoped view
\* ------------------------------------------------------------------------
InitSeq ==
    /\ element = None
    /\ ViewInit
    /\ call = NoArguments
    /\ result = NoResult

NextSeq ==
    \/ \E source \in SeqSources, destination \in SeqDestinations,
          description \in SeqDescriptions, technology \in SeqTechnologies :
          /\ Len(relationship_views) < MaxSeqAdds
          /\ add(source, destination, description, technology)
    \/ \E continue_numbering \in BOOLEAN :
          /\ opened < MaxSeqBlocks
          /\ parallel_sequence_enter(continue_numbering)
    \/ parallel_sequence_exit
    \/ catch

SpecSeq == InitSeq /\ [][NextSeq]_vars

\* ------------------------------------------------------------------------
\* SpecResolve: _find_relationship applied to every combination of arguments
\* ------------------------------------------------------------------------
InitResolve ==
    /\ element = None
    /\ ViewInit
    /\ call \in [source : Elements, destination : Elements,
                 description : Descriptions, technology : Technologies]
    /\ result = NoResult

resolve ==
    /\ ~result.done
    /\ result' = [done |-> TRUE,
                  relationship |-> _find_relationship(call.source, call.description,
                                                      call.destination,
                                                      call.technology).relationship,
                  response |-> _find_relationship(call.source, call.description,
                                                  call.destination,
                                                  call.technology).response]
    /\ UNCHANGED <<call, view_vars>>

NextResolve == resolve

SpecResolve == InitResolve /\ [][NextResolve]_vars

\* ------------------------------------------------------------------------
\* Properties
\* ------------------------------------------------------------------------
SuccessfulAdd == last.op = "add" /\ last.outcome = "ok"

FailedAdd == last.op = "add" /\ last.outcome # "ok"

\* C1: while no parallel_sequence block has been opened on the view, the k-th
\* interaction record carries the order label "k", for forward and for response
\* interactions alike.
LabelsCountUpFromOne ==
    opened = 0 =>
        \A k \in 1..Len(relationship_views) : relationship_views[k].order = str(k)

LabelsCountUpFromOneWitness ==
    /\ opened = 0
    /\ Len(relationship_views) >= 2
    /\ relationship_views[2].order = "2"
    /\ \E k \in 1..Len(relationship_views) : relationship_views[k].response
    /\ \E k \in 1..Len(relationship_views) : ~relationship_views[k].response

\* Two blocks closed one directly after the other in the same frame, both opened with
\* continue_numbering=False, holding the same number of successful adds.
SiblingPairs ==
    {p \in {history[i].closed : i \in DOMAIN history} :
        /\ p.first.present /\ p.second.present
        /\ ~p.first.continue_numbering /\ ~p.second.continue_numbering
        /\ Len(p.first.labels) = Len(p.second.labels)}

\* C2 as stated: two sibling blocks opened one directly after the other with
\* continue_numbering=False and holding the same number of successful adds received
\* the same labels, add for add.
SiblingBlocksRepeatLabels ==
    \A p \in SiblingPairs : p.first.labels = p.second.labels

\* C2 amended: the same, for sibling blocks inside which no block was opened with
\* continue_numbering=False.
FlatSiblingBlocksRepeatLabels ==
    \A p \in SiblingPairs :
        (~p.first.resets /\ ~p.second.resets) => p.first.labels = p.second.labels

FlatSiblingBlocksRepeatLabelsWitness ==
    \E p \in SiblingPairs :
        /\ ~p.first.resets /\ ~p.second.resets
        /\ Len(p.first.labels) >= 1
        /\ p.first.labels[1] = "2"
        /\ p.second.labels[1] = "2"

FailedAddChangesNothing ==
    [][(exception' /\ ~exception) =>
          /\ elements' = elements
          /\ relationship_views' = relationship_views
          /\ sequence_number' = sequence_number]_vars

FailedAddChangesNothingWitness ==
    /\ FailedAdd
    /\ exception
    /\ last.outcome = "destination_rejected"
    /\ elements # {}
    /\ relationship_views # <<>>

\* The declared relationships that satisfy the forward match of the pending call.
ForwardMatches ==
    {i \in DOMAIN Relationships :
        /\ Relationships[i].source = call.source
        /\ Relationships[i].destination = call.destination
        /\ (call.description \in {None, ""}
            \/ Relationships[i].description = call.description)
        /\ (call.technology = None \/ Relationships[i].technology = call.technology)}

\* The declared relationships that run the opposite way and satisfy the technology.
ResponseMatches ==
    {i \in DOMAIN Relationships :
        /\ Relationships[i].source = call.destination
        /\ Relationships[i].destination = call.source
        /\ (call.technology = None \/ Relationships[i].technology = call.technology)}

\* C5: a relationship is returned with response=True only when no relationship
\* satisfies the forward match, and it then runs from the destination to the source;
\* when a forward match exists the result is a forward match with response=False; and
\* with no forward match any reverse relationship of matching technology is accepted,
\* whatever the description.
ResponseOnlyWithoutForwardMatch ==
    result.done =>
        /\ (ForwardMatches # {} =>
              /\ ~result.response
              /\ \E i \in ForwardMatches : result.relationship = Relationships[i])
        /\ ((result.response /\ result.relationship # NoRelationship) =>
              /\ ForwardMatches = {}
              /\ \E i \in ResponseMatches : result.relationship = Relationships[i])
        /\ ((ForwardMatches = {} /\ ResponseMatches # {}) =>
              /\ result.response
              /\ result.relationship # NoRelationship)

ResponseOnlyWithoutForwardMatchWitness ==
    /\ result.done
    /\ result.response
    /\ result.relationship # NoRelationship
    /\ call.description = "Reply"
    /\ result.relationship.description # call.description
    /\ \E i \in DOMAIN Relationships :
          /\ Relationships[i].source = call.source
          /\ Relationships[i].destination = call.destination

\* C6: the forward search returns the earliest declared relationship of the source
\* that satisfies destination, description and technology together; an earlier
\* relationship failing one of the three is not returned in its place.
FirstForwardMatchWins ==
    result.done =>
        /\ (ForwardMatches # {} =>
              /\ ~result.response
              /\ \E i \in ForwardMatches :
                    /\ result.relationship = Relationships[i]
                    /\ \A j \in ForwardMatches : i <= j)
        /\ (~result.response => ForwardMatches # {})

FirstForwardMatchWinsWitness ==
    /\ result.done
    /\ ~result.response
    /\ result.relationship.id = 3
    /\ call.description = "Uses"
    /\ call.technology = "HTTP"

\* C7: the element set never holds the scope of the view, nor, under a Container
\* scope, the software system that owns that container.
ScopeNeverInView ==
    /\ element \notin elements
    /\ (element # None /\ Kind(element) = "Container") => Parent(element) \notin elements

ScopeNeverInViewWitness ==
    /\ element = "C1"
    /\ elements # {}
    /\ FailedAdd
    /\ last.rejected = "S1"
    /\ last.reason = "is_scope"

\* C8: with no scope every element of the view is a Person or a SoftwareSystem and the
\* validator rejects neither kind; under a SoftwareSystem scope the view holds no
\* Component; and the validator never rejects a Person.
KindsAdmittedByScope ==
    /\ element = None =>
          \A e \in elements : Kind(e) \in {"Person", "SoftwareSystem"}
    /\ (element # None /\ Kind(element) = "SoftwareSystem") =>
          \A e \in elements : Kind(e) # "Component"
    /\ last.rejected # None => Kind(last.rejected) # "Person"
    /\ (last.rejected # None /\ element = None) => Kind(last.rejected) # "SoftwareSystem"

KindsAdmittedByScopeWitness ==
    /\ element = None
    /\ {"P", "S2"} \subseteq elements
    /\ FailedAdd
    /\ last.rejected = "C2"
    /\ last.reason = "only_people_and_systems"

\* C9: when add fails because no relationship was found, the message names the
\* technology exactly when a technology was given to the call (any value but None).
NotFoundMessageNamesTechnology ==
    (FailedAdd /\ last.outcome = "not_found") =>
        (last.mentions_technology <=> last.technology # None)

\* C10: the stack always holds the base frame and one frame per open block, and
\* leaving a block, normally or with an exception propagating, pops exactly the frame
\* the block pushed: the depth is again that at entry, the frames below the parent are
\* untouched and the parent counter becomes the block's counter if the block continues
\* the numbering and stays as it was otherwise.
BlocksPopTheirOwnFrame ==
    /\ [](Len(sequence_number) = Len(blocks) + 1)
    /\ [][Len(blocks') < Len(blocks) =>
            LET b == blocks[Len(blocks)]
                n == Len(sequence_number)
            IN  /\ Len(sequence_number') = b.depth
                /\ Len(sequence_number') = n - 1
                /\ \A i \in 1..(n - 2) : sequence_number'[i] = sequence_number[i]
                /\ sequence_number'[n - 1] =
                      IF b.continue_numbering THEN sequence_number[n]
                      ELSE sequence_number[n - 1]]_vars

BlocksPopTheirOwnFrameWitness ==
    /\ exception
    /\ last.op = "exit"
    /\ blocks # <<>>
    /\ Len(sequence_number) = Len(blocks) + 1
    /\ relationship_views # <<>>

====
